---- MODULE Spec2Model ----
(***************************************************************************)
(* Model of safenode/src/network/cmd.rs: SwarmDriver::handle_cmd, the      *)
(* command dispatch of the node's swarm driver, together with the four     *)
(* correlation tables it fills (pending_query, pending_get_closest_peers,  *)
(* pending_requests, pending_dial), the one-shot completion channels the   *)
(* commands carry, and the upstream event channel of the self-loopback.    *)
(* The routing of swarm events back to the tables lives in another file of *)
(* the repository; it is modelled here from the specification text.        *)
(***************************************************************************)
EXTENDS Integers, Sequences, FiniteSets, TLC

\* ---------------------------------------------------------------- bounds
\* Number of completion handles (oneshot channels) created in one run.
MaxHandles == 2
\* Capacity of the bounded mpsc channel behind event_sender.
EventCap == 1

\* ---------------------------------------------------------------- values
LocalPeerId == "p0"
RemotePeers == {"p1", "p2"}
PeerIds == {LocalPeerId} \cup RemotePeers
\* Peers that requests are sent to: the local peer and a remote one.
RequestPeers == {LocalPeerId, "p1"}
\* Peers that the progress events of closest-peers queries report.
ProgressPeers == {"p1", "p2"}
Addrs == {"a1"}
Requests == {"req1", "req2"}
Responses == {"resp1", "resp2"}
\* Responses that arrive from remote peers, and results of record lookups.
PeerResponses == {"resp1"}
Records == {"record"}
\* Identifiers the network stack can hand out for queries and outbound requests.
QueryIds == 0 .. (MaxHandles - 1)
RequestIds == 1 .. MaxHandles
\* Response channels of requests that arrived from remote peers.
PeerChannels == {"ch1"}

\* A value written on a oneshot channel: tag says which, the rest is payload.
Val(tag, resp, peers, ls) == [tag |-> tag, resp |-> resp, peers |-> peers, listeners |-> ls]
OkUnit == Val("Ok", "", {}, {})
ErrVal(e) == Val(e, "", {}, {})
OkResponse(r) == Val("Ok", r, {}, {})
PeerSet(s) == Val("Peers", "", s, {})
SwarmLocalState(peers, ls) == Val("SwarmLocalState", "", peers, ls)
QueryResponse(r) == Val("QueryResponse", r, {}, {})

\* MsgResponder: FromSelf wraps the oneshot sender h, FromPeer a response channel.
FromSelf(h) == [tag |-> "FromSelf", h |-> h, ch |-> ""]
FromPeer(c) == [tag |-> "FromPeer", h |-> 0, ch |-> c]

\* NetworkEvent::RequestReceived { req, channel }
RequestReceived(req, channel) == [req |-> req, channel |-> channel]
NoEvent == [req |-> "", channel |-> [tag |-> "None", h |-> 0, ch |-> ""]]

VARIABLES
    pending_query,              \* QueryId -> oneshot sender (a handle)
    pending_get_closest_peers,  \* QueryId -> [sender, peers]
    pending_requests,           \* RequestId -> oneshot sender
    pending_dial,               \* PeerId -> oneshot sender
    next_query_id,              \* kademlia's query id counter
    next_request_id,            \* request_response's request id counter
    routing_table,              \* peers known to kademlia (add_address)
    listeners,                  \* addresses the swarm listens on
    connected_peers,            \* peers the swarm is connected to
    event_channel,              \* queue behind event_sender
    event_closed,               \* the upstream receiver has been dropped
    sending,                    \* event of a handle_cmd suspended in send().await
    responders,                 \* responders the upstream layer holds
    handles,                    \* the oneshot channels, by handle number
    last                        \* what the last step did

tables == <<pending_query, pending_get_closest_peers, pending_requests, pending_dial>>
swarm == <<next_query_id, next_request_id, routing_table, listeners, connected_peers>>
vars == <<pending_query, pending_get_closest_peers, pending_requests, pending_dial,
          next_query_id, next_request_id, routing_table, listeners, connected_peers,
          event_channel, event_closed, sending, responders, handles, last>>

\* ------------------------------------------------------ oneshot channels
\* One record per oneshot channel a command carried. cmd: the command; peer:
\* the peer the command named ("" when none); table: where handle_cmd put the
\* sender ("" when nowhere, "event" for the responder of an event); id: the
\* operation identifier it was stored under (-1 when none). tx: "live"
\* (sender not yet used), "sent" (send was called), "dropped" (sender dropped
\* without a send). sent: the values passed to send.
NewChannel(cmd, table, id, peer) ==
    [cmd |-> cmd, table |-> table, id |-> id, peer |-> peer, tx |-> "live", sent |-> <<>>]

\* oneshot::Sender::send(v) consumes the sender.
OneshotSend(hs, h, v) ==
    [hs EXCEPT ![h] = [@ EXCEPT !.tx = "sent", !.sent = Append(@, v)]]

\* Dropping senders that were never used.
DropSenders(hs, S) ==
    [h \in DOMAIN hs |-> IF h \in S /\ hs[h].tx = "live"
                         THEN [hs[h] EXCEPT !.tx = "dropped"] ELSE hs[h]]

\* ------------------------------------------------------------- HashMap
EmptyMap == << >>

\* An insert that keeps the value already under the key.
HashMapInsertIfVacant(map, k, v) ==
    [x \in DOMAIN map \cup {k} |-> IF x \in DOMAIN map THEN map[x] ELSE v]

\* HashMap::insert: a value already under the key is replaced by the new one.
HashMapInsert(map, k, v) == [x \in DOMAIN map \cup {k} |-> IF x = k THEN v ELSE map[x]]

\* What HashMap::insert returns: the value that was under the key, if any.
Replaced(map, k) == IF k \in DOMAIN map THEN {map[k]} ELSE {}

\* A lookup in place of the remove: the entry stays.
HashMapGet(map, k) == map

\* HashMap::remove
HashMapRemove(map, k) == [x \in DOMAIN map \ {k} |-> map[x]]

\* ------------------------------------------------------------ last step
\* op: the command of the last step ("SwarmEvent", "Upstream" for the steps
\* of the event routing and of the upstream layer); h: the handle the command
\* carried, or the handle a swarm event was routed to (0 when to none); res:
\* what handle_cmd returned ("Pending" while it is suspended in send().await);
\* calls: the operations of the network stack and of event_sender it invoked;
\* rx: whether the receiver of the handle it wrote to still existed; emitted:
\* the events it handed to event_sender.send.
NoLast == [op |-> "Init", h |-> 0, res |-> "-", calls |-> {}, rx |-> TRUE, emitted |-> <<>>]

Step(op, h, res, calls, rx) ==
    [op |-> op, h |-> h, res |-> res, calls |-> calls, rx |-> rx, emitted |-> <<>>]

Emit(step, event) == [step EXCEPT !.emitted = <<event>>]

Idle == sending = NoEvent
CanAlloc == Len(handles) < MaxHandles
NewHandle == Len(handles) + 1

Init ==
    /\ pending_query = EmptyMap
    /\ pending_get_closest_peers = EmptyMap
    /\ pending_requests = EmptyMap
    /\ pending_dial = EmptyMap
    /\ next_query_id = 0
    /\ next_request_id = 1
    /\ routing_table = {}
    /\ listeners = {}
    /\ connected_peers = {}
    /\ event_channel = <<>>
    /\ event_closed = FALSE
    /\ sending = NoEvent
    /\ responders = {}
    /\ handles = <<>>
    /\ last = NoLast

\* ------------------------------------------------------------ handle_cmd
\* In the commands below rx is whether the receiver of the command's oneshot
\* channel still exists when the sender is written to.

\* GetData that starts the query and forgets to store the sender.
GetDataUnregistered(query_id) ==
    /\ Idle /\ CanAlloc
    /\ LET sender == NewHandle
           hs == Append(handles, NewChannel("GetData", "", -1, ""))
       IN /\ handles' = DropSenders(hs, {sender})
          /\ last' = Step("GetData", sender, "Ok", {"get_record"}, TRUE)
    /\ next_query_id' = next_query_id + 1
    /\ UNCHANGED <<pending_query, pending_get_closest_peers, pending_requests, pending_dial,
                   next_request_id, routing_table, listeners, connected_peers,
                   event_channel, event_closed, sending, responders>>

\* GetData that registers its sender in the closest-peers table as well.
GetDataInBothTables(query_id) ==
    /\ Idle /\ CanAlloc
    /\ LET sender == NewHandle
           hs == Append(handles, NewChannel("GetData", "pending_query", query_id, ""))
       IN /\ pending_query' = HashMapInsert(pending_query, query_id, sender)
          /\ pending_get_closest_peers' =
                HashMapInsert(pending_get_closest_peers, query_id, [sender |-> sender, peers |-> {}])
          /\ handles' = DropSenders(hs, Replaced(pending_query, query_id))
          /\ last' = Step("GetData", sender, "Ok", {"get_record"}, TRUE)
    /\ next_query_id' = next_query_id + 1
    /\ UNCHANGED <<pending_requests, pending_dial,
                   next_request_id, routing_table, listeners, connected_peers,
                   event_channel, event_closed, sending, responders>>

\* SwarmCmd::GetData { key, sender }; query_id is what kademlia.get_record
\* returned.
GetData(query_id) ==
    /\ Idle /\ CanAlloc
    /\ LET sender == NewHandle
           hs == Append(handles, NewChannel("GetData", "pending_query", query_id, ""))
       IN /\ pending_query' = HashMapInsert(pending_query, query_id, sender)
          /\ handles' = DropSenders(hs, Replaced(pending_query, query_id))
          /\ last' = Step("GetData", sender, "Ok", {"get_record"}, TRUE)
    /\ next_query_id' = next_query_id + 1
    /\ UNCHANGED <<pending_get_closest_peers, pending_requests, pending_dial,
                   next_request_id, routing_table, listeners, connected_peers,
                   event_channel, event_closed, sending, responders>>

\* PutProvidedDataAsRecord handled without waiting for a suspended handle_cmd.
PutProvidedDataAsRecordConcurrent(stored) ==
    /\ last' = Step("PutProvidedDataAsRecord", 0, IF stored THEN "Ok" ELSE "Err(Store)",
                    {"put_record(Quorum::All)"}, TRUE)
    /\ UNCHANGED <<tables, swarm, event_channel, event_closed, sending, responders, handles>>

\* PutProvidedDataAsRecord without the `?`: the result of put_record is ignored.
PutProvidedDataAsRecordNoTry(stored) ==
    /\ Idle
    /\ last' = Step("PutProvidedDataAsRecord", 0, "Ok", {"put_record(Quorum::All)"}, TRUE)
    /\ UNCHANGED <<tables, swarm, event_channel, event_closed, sending, responders, handles>>

\* SwarmCmd::PutProvidedDataAsRecord { record }; stored is whether
\* kademlia.put_record(record, Quorum::All) returned Ok. The `?` returns its
\* error to the caller.
PutProvidedDataAsRecord(stored) ==
    /\ Idle
    /\ last' = Step("PutProvidedDataAsRecord", 0, IF stored THEN "Ok" ELSE "Err(Store)",
                    {"put_record(Quorum::All)"}, TRUE)
    /\ UNCHANGED <<tables, swarm, event_channel, event_closed, sending, responders, handles>>

\* StartListening that answers only a successful listen_on.
StartListeningNoErrReply(addr, ok, rx) ==
    /\ Idle /\ CanAlloc
    /\ LET sender == NewHandle
           hs == Append(handles, NewChannel("StartListening", "", -1, ""))
       IN /\ handles' = IF ok THEN OneshotSend(hs, sender, OkUnit) ELSE DropSenders(hs, {sender})
          /\ last' = Step("StartListening", sender, "Ok", {"listen_on"}, rx)
    /\ listeners' = IF ok THEN listeners \cup {addr} ELSE listeners
    /\ UNCHANGED <<tables, next_query_id, next_request_id, routing_table, connected_peers,
                   event_channel, event_closed, sending, responders>>

\* SwarmCmd::StartListening { addr, sender }; ok is whether swarm.listen_on
\* returned Ok.
StartListening(addr, ok, rx) ==
    /\ Idle /\ CanAlloc
    /\ LET sender == NewHandle
           hs == Append(handles, NewChannel("StartListening", "", -1, ""))
       IN /\ handles' = OneshotSend(hs, sender, IF ok THEN OkUnit ELSE ErrVal("ListenError"))
          /\ last' = Step("StartListening", sender, "Ok", {"listen_on"}, rx)
    /\ listeners' = IF ok THEN listeners \cup {addr} ELSE listeners
    /\ UNCHANGED <<tables, next_query_id, next_request_id, routing_table, connected_peers,
                   event_channel, event_closed, sending, responders>>

\* Dial that also treats a peer it is connected to as already dialed.
DialUnlessConnected(peer_id, added, ok, rx) ==
    /\ Idle /\ CanAlloc
    /\ LET sender == NewHandle
           vacant == peer_id \notin DOMAIN pending_dial /\ peer_id \notin connected_peers
       IN IF vacant
          THEN /\ routing_table' = IF added THEN routing_table \cup {peer_id} ELSE routing_table
               /\ IF ok
                  THEN /\ pending_dial' = HashMapInsert(pending_dial, peer_id, sender)
                       /\ handles' = Append(handles, NewChannel("Dial", "pending_dial", -1, peer_id))
                       /\ last' = Step("Dial", sender, "Ok", {"add_address", "dial"}, TRUE)
                  ELSE /\ pending_dial' = pending_dial
                       /\ handles' = OneshotSend(Append(handles, NewChannel("Dial", "", -1, peer_id)),
                                                 sender, ErrVal("DialError"))
                       /\ last' = Step("Dial", sender, "Ok", {"add_address", "dial"}, rx)
          ELSE /\ routing_table' = routing_table
               /\ pending_dial' = pending_dial
               /\ handles' = DropSenders(Append(handles, NewChannel("Dial", "", -1, peer_id)), {sender})
               /\ last' = Step("Dial", sender, "Ok", {}, TRUE)
    /\ UNCHANGED <<pending_query, pending_get_closest_peers, pending_requests,
                   next_query_id, next_request_id, listeners, connected_peers,
                   event_channel, event_closed, sending, responders>>

\* Dial that stores the sender before it looks at the result of swarm.dial:
\* a failed dial leaves the entry behind.
DialInsertFirst(peer_id, added, ok, rx) ==
    /\ Idle /\ CanAlloc
    /\ LET sender == NewHandle
           vacant == peer_id \notin DOMAIN pending_dial
       IN IF vacant
          THEN /\ routing_table' = IF added THEN routing_table \cup {peer_id} ELSE routing_table
               /\ pending_dial' = HashMapInsert(pending_dial, peer_id, sender)
               /\ IF ok
                  THEN /\ handles' = Append(handles, NewChannel("Dial", "pending_dial", -1, peer_id))
                       /\ last' = Step("Dial", sender, "Ok", {"add_address", "dial"}, TRUE)
                  ELSE /\ handles' = OneshotSend(Append(handles, NewChannel("Dial", "", -1, peer_id)),
                                                 sender, ErrVal("DialError"))
                       /\ last' = Step("Dial", sender, "Ok", {"add_address", "dial"}, rx)
          ELSE /\ routing_table' = routing_table
               /\ pending_dial' = pending_dial
               /\ handles' = DropSenders(Append(handles, NewChannel("Dial", "", -1, peer_id)), {sender})
               /\ last' = Step("Dial", sender, "Ok", {}, TRUE)
    /\ UNCHANGED <<pending_query, pending_get_closest_peers, pending_requests,
                   next_query_id, next_request_id, listeners, connected_peers,
                   event_channel, event_closed, sending, responders>>

\* Dial without the vacancy check on pending_dial: a plain insert.
DialNoVacancyCheck(peer_id, added, ok, rx) ==
    /\ Idle /\ CanAlloc
    /\ LET sender == NewHandle
       IN /\ routing_table' = IF added THEN routing_table \cup {peer_id} ELSE routing_table
          /\ IF ok
             THEN /\ pending_dial' = HashMapInsert(pending_dial, peer_id, sender)
                  /\ handles' = DropSenders(
                                   Append(handles, NewChannel("Dial", "pending_dial", -1, peer_id)),
                                   Replaced(pending_dial, peer_id))
                  /\ last' = Step("Dial", sender, "Ok", {"add_address", "dial"}, TRUE)
             ELSE /\ pending_dial' = pending_dial
                  /\ handles' = OneshotSend(Append(handles, NewChannel("Dial", "", -1, peer_id)),
                                            sender, ErrVal("DialError"))
                  /\ last' = Step("Dial", sender, "Ok", {"add_address", "dial"}, rx)
    /\ UNCHANGED <<pending_query, pending_get_closest_peers, pending_requests,
                   next_query_id, next_request_id, listeners, connected_peers,
                   event_channel, event_closed, sending, responders>>

\* SwarmCmd::Dial { peer_id, peer_addr, sender }; added is whether
\* kademlia.add_address put the peer in the routing table, ok whether
\* swarm.dial returned Ok.
Dial(peer_id, added, ok, rx) ==
    /\ Idle /\ CanAlloc
    /\ LET sender == NewHandle
           vacant == peer_id \notin DOMAIN pending_dial
       IN IF vacant
          THEN /\ routing_table' = IF added THEN routing_table \cup {peer_id} ELSE routing_table
               /\ IF ok
                  THEN /\ pending_dial' = HashMapInsert(pending_dial, peer_id, sender)
                       /\ handles' = Append(handles, NewChannel("Dial", "pending_dial", -1, peer_id))
                       /\ last' = Step("Dial", sender, "Ok", {"add_address", "dial"}, TRUE)
                  ELSE /\ pending_dial' = pending_dial
                       /\ handles' = OneshotSend(Append(handles, NewChannel("Dial", "", -1, peer_id)),
                                                 sender, ErrVal("DialError"))
                       /\ last' = Step("Dial", sender, "Ok", {"add_address", "dial"}, rx)
          ELSE \* warn!("Already dialing peer."): the sender goes out of scope unused.
               /\ routing_table' = routing_table
               /\ pending_dial' = pending_dial
               /\ handles' = DropSenders(Append(handles, NewChannel("Dial", "", -1, peer_id)), {sender})
               /\ last' = Step("Dial", sender, "Ok", {}, TRUE)
    /\ UNCHANGED <<pending_query, pending_get_closest_peers, pending_requests,
                   next_query_id, next_request_id, listeners, connected_peers,
                   event_channel, event_closed, sending, responders>>

\* QueryForClosestPeers whose accumulator starts with the peers of the local
\* routing table instead of the empty set.
QueryForClosestPeersSeeded(query_id) ==
    /\ Idle /\ CanAlloc
    /\ LET sender == NewHandle
           hs == Append(handles, NewChannel("QueryForClosestPeers",
                                            "pending_get_closest_peers", query_id, ""))
           old == {e.sender : e \in Replaced(pending_get_closest_peers, query_id)}
       IN /\ pending_get_closest_peers' =
                HashMapInsert(pending_get_closest_peers, query_id,
                              [sender |-> sender, peers |-> routing_table])
          /\ handles' = DropSenders(hs, old)
          /\ last' = Step("QueryForClosestPeers", sender, "Ok", {"get_closest_peers"}, TRUE)
    /\ next_query_id' = next_query_id + 1
    /\ UNCHANGED <<pending_query, pending_requests, pending_dial,
                   next_request_id, routing_table, listeners, connected_peers,
                   event_channel, event_closed, sending, responders>>

\* SwarmCmd::QueryForClosestPeers { xor_name, sender }; query_id is what
\* kademlia.get_closest_peers returned. The entry starts with Default::default(),
\* the empty peer set.
QueryForClosestPeers(query_id) ==
    /\ Idle /\ CanAlloc
    /\ LET sender == NewHandle
           hs == Append(handles, NewChannel("QueryForClosestPeers",
                                            "pending_get_closest_peers", query_id, ""))
           old == {e.sender : e \in Replaced(pending_get_closest_peers, query_id)}
       IN /\ pending_get_closest_peers' =
                HashMapInsert(pending_get_closest_peers, query_id, [sender |-> sender, peers |-> {}])
          /\ handles' = DropSenders(hs, old)
          /\ last' = Step("QueryForClosestPeers", sender, "Ok", {"get_closest_peers"}, TRUE)
    /\ next_query_id' = next_query_id + 1
    /\ UNCHANGED <<pending_query, pending_requests, pending_dial,
                   next_request_id, routing_table, listeners, connected_peers,
                   event_channel, event_closed, sending, responders>>

\* GetClosestLocalPeers with a `?` on the send: a dropped receiver is an error.
GetClosestLocalPeersTry(rx) ==
    /\ Idle /\ CanAlloc
    /\ LET sender == NewHandle
           closest_peer == routing_table
           hs == Append(handles, NewChannel("GetClosestLocalPeers", "", -1, ""))
       IN /\ handles' = OneshotSend(hs, sender, PeerSet(closest_peer))
          /\ last' = Step("GetClosestLocalPeers", sender,
                          IF rx THEN "Ok" ELSE "Err(InternalMsgChannelDropped)",
                          {"get_closest_local_peers"}, rx)
    /\ UNCHANGED <<tables, swarm, event_channel, event_closed, sending, responders>>

\* GetClosestLocalPeers that starts a network query like QueryForClosestPeers.
GetClosestLocalPeersByQuery(rx) ==
    /\ Idle /\ CanAlloc
    /\ LET sender == NewHandle
           query_id == next_query_id
           hs == Append(handles, NewChannel("GetClosestLocalPeers",
                                            "pending_get_closest_peers", query_id, ""))
       IN /\ pending_get_closest_peers' =
                HashMapInsert(pending_get_closest_peers, query_id, [sender |-> sender, peers |-> {}])
          /\ handles' = hs
          /\ last' = Step("GetClosestLocalPeers", sender, "Ok", {"get_closest_peers"}, TRUE)
    /\ next_query_id' = next_query_id + 1
    /\ UNCHANGED <<pending_query, pending_requests, pending_dial,
                   next_request_id, routing_table, listeners, connected_peers,
                   event_channel, event_closed, sending, responders>>

\* SwarmCmd::GetClosestLocalPeers { xor_name, sender }: the peers of the local
\* routing table, collected into a set and sent at once.
GetClosestLocalPeers(rx) ==
    /\ Idle /\ CanAlloc
    /\ LET sender == NewHandle
           closest_peer == routing_table
           hs == Append(handles, NewChannel("GetClosestLocalPeers", "", -1, ""))
       IN /\ handles' = OneshotSend(hs, sender, PeerSet(closest_peer))
          /\ last' = Step("GetClosestLocalPeers", sender, "Ok", {"get_closest_local_peers"}, rx)
    /\ UNCHANGED <<tables, swarm, event_channel, event_closed, sending, responders>>

\* SendRequest that registers the sender under a request id before it looks at
\* the peer, so that a failed hand-over to the upstream layer leaves an entry.
SendRequestRegisterFirst(req, peer, request_id) ==
    /\ Idle /\ CanAlloc
    /\ LET sender == NewHandle
           event == RequestReceived(req, FromSelf(sender))
           registered == Append(handles, NewChannel("SendRequest", "pending_requests",
                                                    request_id, peer))
       IN /\ pending_requests' = HashMapInsert(pending_requests, request_id, sender)
          /\ next_request_id' = next_request_id + 1
          /\ IF peer = LocalPeerId
             THEN IF event_closed
                  THEN /\ handles' = registered
                       /\ UNCHANGED <<event_channel, sending>>
                       /\ last' = Emit(Step("SendRequest", sender, "Err(EventChannelClosed)",
                                            {"event_sender.send"}, TRUE), event)
                  ELSE IF Len(event_channel) < EventCap
                  THEN /\ handles' = registered
                       /\ event_channel' = Append(event_channel, event)
                       /\ UNCHANGED sending
                       /\ last' = Emit(Step("SendRequest", sender, "Ok",
                                            {"event_sender.send"}, TRUE), event)
                  ELSE /\ handles' = registered
                       /\ sending' = event
                       /\ UNCHANGED event_channel
                       /\ last' = Emit(Step("SendRequest", sender, "Pending",
                                            {"event_sender.send"}, TRUE), event)
             ELSE /\ handles' = DropSenders(registered, Replaced(pending_requests, request_id))
                  /\ UNCHANGED <<event_channel, sending>>
                  /\ last' = Step("SendRequest", sender, "Ok", {"send_request"}, TRUE)
    /\ UNCHANGED <<pending_query, pending_get_closest_peers, pending_dial,
                   next_query_id, routing_table, listeners, connected_peers,
                   event_closed, responders>>

\* SendRequest without the check for the local peer: every request goes to
\* request_response.send_request.
SendRequestNoLoopback(req, peer, request_id) ==
    /\ Idle /\ CanAlloc
    /\ LET sender == NewHandle
       IN /\ pending_requests' = HashMapInsert(pending_requests, request_id, sender)
          /\ handles' = DropSenders(Append(handles, NewChannel("SendRequest", "pending_requests",
                                                               request_id, peer)),
                                    Replaced(pending_requests, request_id))
          /\ next_request_id' = next_request_id + 1
          /\ last' = Step("SendRequest", sender, "Ok", {"send_request"}, TRUE)
    /\ UNCHANGED <<pending_query, pending_get_closest_peers, pending_dial,
                   next_query_id, routing_table, listeners, connected_peers,
                   event_channel, event_closed, sending, responders>>

\* SwarmCmd::SendRequest { req, peer, sender }; request_id is what
\* request_response.send_request returned. A request to the local peer goes to
\* event_sender; send().await fails when the receiver is gone and suspends
\* while the channel is full.
SendRequest(req, peer, request_id) ==
    /\ Idle /\ CanAlloc
    /\ LET sender == NewHandle
           event == RequestReceived(req, FromSelf(sender))
       IN IF peer = LocalPeerId
          THEN /\ UNCHANGED <<pending_requests, next_request_id>>
               /\ IF event_closed
                  THEN /\ handles' = DropSenders(Append(handles, NewChannel("SendRequest", "", -1, peer)),
                                                 {sender})
                       /\ UNCHANGED <<event_channel, sending>>
                       /\ last' = Emit(Step("SendRequest", sender, "Err(EventChannelClosed)",
                                            {"event_sender.send"}, TRUE), event)
                  ELSE IF Len(event_channel) < EventCap
                  THEN /\ handles' = Append(handles, NewChannel("SendRequest", "event", -1, peer))
                       /\ event_channel' = Append(event_channel, event)
                       /\ UNCHANGED sending
                       /\ last' = Emit(Step("SendRequest", sender, "Ok",
                                            {"event_sender.send"}, TRUE), event)
                  ELSE /\ handles' = Append(handles, NewChannel("SendRequest", "event", -1, peer))
                       /\ sending' = event
                       /\ UNCHANGED event_channel
                       /\ last' = Emit(Step("SendRequest", sender, "Pending",
                                            {"event_sender.send"}, TRUE), event)
          ELSE /\ pending_requests' = HashMapInsert(pending_requests, request_id, sender)
               /\ handles' = DropSenders(Append(handles, NewChannel("SendRequest", "pending_requests",
                                                                    request_id, peer)),
                                         Replaced(pending_requests, request_id))
               /\ next_request_id' = next_request_id + 1
               /\ UNCHANGED <<event_channel, sending>>
               /\ last' = Step("SendRequest", sender, "Ok", {"send_request"}, TRUE)
    /\ UNCHANGED <<pending_query, pending_get_closest_peers, pending_dial,
                   next_query_id, routing_table, listeners, connected_peers,
                   event_closed, responders>>

\* A suspended send that is woken by room in the channel only, not by the
\* drop of the receiver.
SendRequestResumeOnRoomOnly ==
    /\ ~Idle
    /\ ~event_closed /\ Len(event_channel) < EventCap
    /\ event_channel' = Append(event_channel, sending)
    /\ last' = Step("SendRequest", sending.channel.h, "Ok", {}, TRUE)
    /\ sending' = NoEvent
    /\ UNCHANGED <<tables, swarm, event_closed, responders, handles>>

\* The rest of a SendRequest to self that was suspended in send().await: the
\* send ends when the channel has room or the receiver is dropped.
SendRequestResume ==
    /\ ~Idle
    /\ event_closed \/ Len(event_channel) < EventCap
    /\ LET sender == sending.channel.h
       IN IF event_closed
          THEN /\ handles' = DropSenders(handles, {sender})
               /\ UNCHANGED event_channel
               /\ last' = Step("SendRequest", sender, "Err(EventChannelClosed)", {}, TRUE)
          ELSE /\ event_channel' = Append(event_channel, sending)
               /\ UNCHANGED handles
               /\ last' = Step("SendRequest", sender, "Ok", {}, TRUE)
    /\ sending' = NoEvent
    /\ UNCHANGED <<tables, swarm, event_closed, responders>>

\* SendResponse that treats a FromSelf responder like a FromPeer one: the
\* response goes to the network stack and the local sender is dropped.
SendResponseFromSelfToWire(resp, channel, rx) ==
    /\ Idle
    /\ channel \in responders /\ channel.tag = "FromSelf"
    /\ responders' = responders \ {channel}
    /\ handles' = DropSenders(handles, {channel.h})
    /\ last' = Step("SendResponse", channel.h, "Ok", {"send_response"}, TRUE)
    /\ UNCHANGED <<tables, swarm, event_channel, event_closed, sending>>

\* SwarmCmd::SendResponse { resp, channel } with MsgResponder::FromSelf(channel)
SendResponseFromSelf(resp, channel, rx) ==
    /\ Idle
    /\ channel \in responders /\ channel.tag = "FromSelf"
    /\ responders' = responders \ {channel}
    /\ handles' = OneshotSend(handles, channel.h, OkResponse(resp))
    /\ last' = Step("SendResponse", channel.h,
                    IF rx THEN "Ok" ELSE "Err(InternalMsgChannelDropped)", {}, rx)
    /\ UNCHANGED <<tables, swarm, event_channel, event_closed, sending>>

\* SendResponse to a peer without the `?`: a failed send_response is ignored.
SendResponseFromPeerNoTry(resp, channel, delivered) ==
    /\ Idle
    /\ channel.tag = "FromPeer"
    /\ last' = Step("SendResponse", 0, "Ok", {"send_response"}, TRUE)
    /\ UNCHANGED <<tables, swarm, event_channel, event_closed, sending, responders, handles>>

\* SwarmCmd::SendResponse { resp, channel } with MsgResponder::FromPeer(channel);
\* delivered is whether request_response.send_response returned Ok.
SendResponseFromPeer(resp, channel, delivered) ==
    /\ Idle
    /\ channel.tag = "FromPeer"
    /\ last' = Step("SendResponse", 0,
                    IF delivered THEN "Ok" ELSE "Err(OutgoingResponseDropped)",
                    {"send_response"}, TRUE)
    /\ UNCHANGED <<tables, swarm, event_channel, event_closed, sending, responders, handles>>

\* GetSwarmLocalState whose snapshot leaves out the listeners.
GetSwarmLocalStateNoListeners(rx) ==
    /\ Idle /\ CanAlloc
    /\ LET sender == NewHandle
           current_state == SwarmLocalState(connected_peers, {})
           hs == Append(handles, NewChannel("GetSwarmLocalState", "", -1, ""))
       IN /\ handles' = OneshotSend(hs, sender, current_state)
          /\ last' = Step("GetSwarmLocalState", sender,
                          IF rx THEN "Ok" ELSE "Err(InternalMsgChannelDropped)",
                          {"connected_peers", "listeners"}, rx)
    /\ UNCHANGED <<tables, swarm, event_channel, event_closed, sending, responders>>

\* GetSwarmLocalState that ignores a failed send, as the other commands do.
GetSwarmLocalStateIgnoringSend(rx) ==
    /\ Idle /\ CanAlloc
    /\ LET sender == NewHandle
           current_state == SwarmLocalState(connected_peers, listeners)
           hs == Append(handles, NewChannel("GetSwarmLocalState", "", -1, ""))
       IN /\ handles' = OneshotSend(hs, sender, current_state)
          /\ last' = Step("GetSwarmLocalState", sender, "Ok", {"connected_peers", "listeners"}, rx)
    /\ UNCHANGED <<tables, swarm, event_channel, event_closed, sending, responders>>

\* SwarmCmd::GetSwarmLocalState(sender)
GetSwarmLocalState(rx) ==
    /\ Idle /\ CanAlloc
    /\ LET sender == NewHandle
           current_state == SwarmLocalState(connected_peers, listeners)
           hs == Append(handles, NewChannel("GetSwarmLocalState", "", -1, ""))
       IN /\ handles' = OneshotSend(hs, sender, current_state)
          /\ last' = Step("GetSwarmLocalState", sender,
                          IF rx THEN "Ok" ELSE "Err(InternalMsgChannelDropped)",
                          {"connected_peers", "listeners"}, rx)
    /\ UNCHANGED <<tables, swarm, event_channel, event_closed, sending, responders>>

\* ------------------------------------------------------------- upstream
\* The upstream layer takes the next event from the channel and keeps its
\* responder until it answers.
UpstreamRecv ==
    /\ ~event_closed /\ Len(event_channel) > 0
    /\ responders' = responders \cup {Head(event_channel).channel}
    /\ event_channel' = Tail(event_channel)
    /\ last' = Step("Upstream", 0, "-", {}, TRUE)
    /\ UNCHANGED <<tables, swarm, event_closed, sending, handles>>

\* The upstream layer drops its receiver: queued events are dropped with the
\* senders they carry.
UpstreamClose ==
    /\ ~event_closed
    /\ event_closed' = TRUE
    /\ event_channel' = <<>>
    /\ handles' = DropSenders(handles, {event_channel[i].channel.h : i \in DOMAIN event_channel})
    /\ last' = Step("Upstream", 0, "-", {}, TRUE)
    /\ UNCHANGED <<tables, swarm, sending, responders>>

\* -------------------------------------------------------- event routing
\* In the routing steps below rx is whether the receiver of the entry's
\* oneshot channel still exists when the result is written; without an entry
\* nothing is written and rx is TRUE.

\* The final result of a get_record query: the entry is removed and the
\* result written to its sender; an unknown identifier is ignored.
GetRecordCompleted(id, r, rx) ==
    /\ Idle
    /\ IF id \in DOMAIN pending_query
       THEN /\ pending_query' = HashMapRemove(pending_query, id)
            /\ handles' = OneshotSend(handles, pending_query[id], QueryResponse(r))
            /\ last' = Step("SwarmEvent", pending_query[id], "-", {}, rx)
       ELSE /\ rx
            /\ UNCHANGED <<pending_query, handles>>
            /\ last' = Step("SwarmEvent", 0, "-", {}, TRUE)
    /\ UNCHANGED <<pending_get_closest_peers, pending_requests, pending_dial, swarm,
                   event_channel, event_closed, sending, responders>>

\* A progress event of a closest-peers query adds its peers to the accumulator.
ClosestPeersProgress(id, peers) ==
    /\ Idle
    /\ IF id \in DOMAIN pending_get_closest_peers
       THEN pending_get_closest_peers' =
                [pending_get_closest_peers EXCEPT ![id].peers = @ \cup peers]
       ELSE UNCHANGED pending_get_closest_peers
    /\ last' = Step("SwarmEvent", 0, "-", {}, TRUE)
    /\ UNCHANGED <<pending_query, pending_requests, pending_dial, swarm,
                   event_channel, event_closed, sending, responders, handles>>

\* The final event of a closest-peers query: the entry is removed and the
\* accumulated peers are written to its sender.
ClosestPeersCompleted(id, rx) ==
    /\ Idle
    /\ IF id \in DOMAIN pending_get_closest_peers
       THEN /\ pending_get_closest_peers' = HashMapRemove(pending_get_closest_peers, id)
            /\ handles' = OneshotSend(handles, pending_get_closest_peers[id].sender,
                                      PeerSet(pending_get_closest_peers[id].peers))
            /\ last' = Step("SwarmEvent", pending_get_closest_peers[id].sender, "-", {}, rx)
       ELSE /\ rx
            /\ UNCHANGED <<pending_get_closest_peers, handles>>
            /\ last' = Step("SwarmEvent", 0, "-", {}, TRUE)
    /\ UNCHANGED <<pending_query, pending_requests, pending_dial, swarm,
                   event_channel, event_closed, sending, responders>>

\* The response to, or the failure of, an outbound request.
RequestCompleted(id, v, rx) ==
    /\ Idle
    /\ IF id \in DOMAIN pending_requests
       THEN /\ pending_requests' = HashMapRemove(pending_requests, id)
            /\ handles' = OneshotSend(handles, pending_requests[id], v)
            /\ last' = Step("SwarmEvent", pending_requests[id], "-", {}, rx)
       ELSE /\ rx
            /\ UNCHANGED <<pending_requests, handles>>
            /\ last' = Step("SwarmEvent", 0, "-", {}, TRUE)
    /\ UNCHANGED <<pending_query, pending_get_closest_peers, pending_dial, swarm,
                   event_channel, event_closed, sending, responders>>

\* The outcome of a dial: a connection to the peer, or an outgoing connection
\* error. The entry is removed and the outcome written to its sender; an
\* outcome for a peer without an entry is ignored. (Connections that peers
\* open to this node are left out: connected_peers grows by dials only.)
DialCompleted(peer, ok, rx) ==
    /\ Idle
    /\ IF peer \in DOMAIN pending_dial
       THEN /\ pending_dial' = HashMapRemove(pending_dial, peer)
            /\ handles' = OneshotSend(handles, pending_dial[peer],
                                      IF ok THEN OkUnit ELSE ErrVal("DialError"))
            /\ connected_peers' = IF ok THEN connected_peers \cup {peer} ELSE connected_peers
            /\ last' = Step("SwarmEvent", pending_dial[peer], "-", {}, rx)
       ELSE /\ rx
            /\ UNCHANGED <<pending_dial, handles, connected_peers>>
            /\ last' = Step("SwarmEvent", 0, "-", {}, TRUE)
    /\ UNCHANGED <<pending_query, pending_get_closest_peers, pending_requests,
                   next_query_id, next_request_id, routing_table, listeners,
                   event_channel, event_closed, sending, responders>>

\* A connection ends.
ConnectionClosed(peer) ==
    /\ Idle
    /\ peer \in connected_peers
    /\ connected_peers' = connected_peers \ {peer}
    /\ last' = Step("SwarmEvent", 0, "-", {}, TRUE)
    /\ UNCHANGED <<tables, next_query_id, next_request_id, routing_table, listeners,
                   event_channel, event_closed, sending, responders, handles>>

\* -------------------------------------------------------- specifications
\* The network stack reports events, late and repeated ones too, only for
\* identifiers it has handed out.
IssuedQueryIds == {handles[h].id : h \in {x \in DOMAIN handles :
                      handles[x].table \in {"pending_query", "pending_get_closest_peers"}}}
IssuedRequestIds == {handles[h].id : h \in {x \in DOMAIN handles :
                        handles[x].table = "pending_requests"}}

\* The network stack numbers its queries and requests with counters:
\* a new operation gets next_query_id or next_request_id.
Next ==
    \/ GetData(next_query_id)
    \/ \E stored \in BOOLEAN : PutProvidedDataAsRecord(stored)
    \/ \E addr \in Addrs, ok, rx \in BOOLEAN : StartListening(addr, ok, rx)
    \/ \E peer_id \in RemotePeers, added, ok, rx \in BOOLEAN : Dial(peer_id, added, ok, rx)
    \/ QueryForClosestPeers(next_query_id)
    \/ \E rx \in BOOLEAN : GetClosestLocalPeers(rx)
    \/ \E req \in Requests, peer \in RequestPeers : SendRequest(req, peer, next_request_id)
    \/ SendRequestResume
    \/ \E resp \in Responses, channel \in responders, rx \in BOOLEAN :
          SendResponseFromSelf(resp, channel, rx)
    \/ \E resp \in Responses, c \in PeerChannels, delivered \in BOOLEAN :
          SendResponseFromPeer(resp, FromPeer(c), delivered)
    \/ \E rx \in BOOLEAN : GetSwarmLocalState(rx)
    \/ UpstreamRecv
    \/ UpstreamClose
    \/ \E id \in IssuedQueryIds, r \in Records, rx \in BOOLEAN : GetRecordCompleted(id, r, rx)
    \/ \E id \in IssuedQueryIds, peer \in ProgressPeers : ClosestPeersProgress(id, {peer})
    \/ \E id \in IssuedQueryIds, rx \in BOOLEAN : ClosestPeersCompleted(id, rx)
    \/ \E id \in IssuedRequestIds, r \in PeerResponses, rx \in BOOLEAN :
          RequestCompleted(id, OkResponse(r), rx)
    \/ \E id \in IssuedRequestIds, rx \in BOOLEAN :
          RequestCompleted(id, ErrVal("OutboundFailure"), rx)
    \/ \E peer \in RemotePeers, ok, rx \in BOOLEAN : DialCompleted(peer, ok, rx)
    \/ \E peer \in RemotePeers : ConnectionClosed(peer)

Spec == Init /\ [][Next]_vars

\* The driver with an upstream layer that keeps taking events from the channel
\* while there are any, and a runtime that wakes a suspended send as soon as
\* it can end.
SpecLive == Init /\ [][Next]_vars /\ WF_vars(UpstreamRecv) /\ WF_vars(SendRequestResume)

\* The identifiers a network stack that does not number its operations afresh
\* may return: the next number, or the identifier of a pending operation.
ReturnedQueryIds ==
    {next_query_id} \cup DOMAIN pending_query \cup DOMAIN pending_get_closest_peers
ReturnedRequestIds == {next_request_id} \cup DOMAIN pending_requests

\* The same steps when the network stack may return an identifier that is
\* still pending.
NextAnyId ==
    \/ \E query_id \in ReturnedQueryIds : GetData(query_id)
    \/ \E stored \in BOOLEAN : PutProvidedDataAsRecord(stored)
    \/ \E addr \in Addrs, ok, rx \in BOOLEAN : StartListening(addr, ok, rx)
    \/ \E peer_id \in RemotePeers, added, ok, rx \in BOOLEAN : Dial(peer_id, added, ok, rx)
    \/ \E query_id \in ReturnedQueryIds : QueryForClosestPeers(query_id)
    \/ \E rx \in BOOLEAN : GetClosestLocalPeers(rx)
    \/ \E req \in Requests, peer \in RequestPeers, request_id \in ReturnedRequestIds :
          SendRequest(req, peer, request_id)
    \/ SendRequestResume
    \/ \E resp \in Responses, channel \in responders, rx \in BOOLEAN :
          SendResponseFromSelf(resp, channel, rx)
    \/ \E resp \in Responses, c \in PeerChannels, delivered \in BOOLEAN :
          SendResponseFromPeer(resp, FromPeer(c), delivered)
    \/ \E rx \in BOOLEAN : GetSwarmLocalState(rx)
    \/ UpstreamRecv
    \/ UpstreamClose
    \/ \E id \in IssuedQueryIds, r \in Records, rx \in BOOLEAN : GetRecordCompleted(id, r, rx)
    \/ \E id \in IssuedQueryIds, peer \in ProgressPeers : ClosestPeersProgress(id, {peer})
    \/ \E id \in IssuedQueryIds, rx \in BOOLEAN : ClosestPeersCompleted(id, rx)
    \/ \E id \in IssuedRequestIds, r \in PeerResponses, rx \in BOOLEAN :
          RequestCompleted(id, OkResponse(r), rx)
    \/ \E id \in IssuedRequestIds, rx \in BOOLEAN :
          RequestCompleted(id, ErrVal("OutboundFailure"), rx)
    \/ \E peer \in RemotePeers, ok, rx \in BOOLEAN : DialCompleted(peer, ok, rx)
    \/ \E peer \in RemotePeers : ConnectionClosed(peer)

SpecAnyId == Init /\ [][NextAnyId]_vars

\* ----------------------------------------------------------- properties
\* The step is the handling of command op (or, with "SwarmEvent", the routing
\* of an event of the network stack).
Handled(op) == last'.op = op

\* The number of places that hold the sender of handle h: table entries,
\* events in the channel, the event of a suspended send, responders upstream.
HeldCount(h) ==
    Cardinality({id \in DOMAIN pending_query : pending_query[id] = h})
    + Cardinality({id \in DOMAIN pending_get_closest_peers :
                      pending_get_closest_peers[id].sender = h})
    + Cardinality({id \in DOMAIN pending_requests : pending_requests[id] = h})
    + Cardinality({p \in DOMAIN pending_dial : pending_dial[p] = h})
    + Cardinality({i \in DOMAIN event_channel : event_channel[i].channel = FromSelf(h)})
    + (IF sending.channel = FromSelf(h) THEN 1 ELSE 0)
    + (IF FromSelf(h) \in responders THEN 1 ELSE 0)

\* The sender of h is held where its record says handle_cmd put it.
HeldWhereStored(h) ==
    LET c == handles[h]
    IN CASE c.table = "pending_query" ->
                c.id \in DOMAIN pending_query /\ pending_query[c.id] = h
         [] c.table = "pending_get_closest_peers" ->
                c.id \in DOMAIN pending_get_closest_peers
                /\ pending_get_closest_peers[c.id].sender = h
         [] c.table = "pending_requests" ->
                c.id \in DOMAIN pending_requests /\ pending_requests[c.id] = h
         [] c.table = "pending_dial" ->
                c.peer \in DOMAIN pending_dial /\ pending_dial[c.peer] = h
         [] c.table = "event" ->
                \/ \E i \in DOMAIN event_channel : event_channel[i].channel = FromSelf(h)
                \/ sending.channel = FromSelf(h)
                \/ FromSelf(h) \in responders
         [] OTHER -> FALSE

\* h came with a Dial for a peer whose earlier dial had been stored.
DuplicateDial(h) ==
    /\ handles[h].cmd = "Dial" /\ handles[h].table = ""
    /\ \E h1 \in 1 .. (h - 1) :
          /\ handles[h1].cmd = "Dial" /\ handles[h1].table = "pending_dial"
          /\ handles[h1].peer = handles[h].peer

\* h came with a SendRequest to self and was lost with the closed event path.
LostUpstream(h) ==
    /\ handles[h].cmd = "SendRequest" /\ handles[h].peer = LocalPeerId
    /\ event_closed

\* C1 as stated: every command's handle gets exactly one completion, never
\* two, and never none once its operation is over: the only handles without
\* one are those still held in a table or on the event path, or lost because
\* the upstream layer closed the event path.
C1_Original ==
    \A h \in DOMAIN handles :
        /\ Len(handles[h].sent) <= 1
        /\ handles[h].tx = "sent" => Len(handles[h].sent) = 1 /\ HeldCount(h) = 0
        /\ handles[h].tx = "live" =>
              handles[h].sent = <<>> /\ HeldCount(h) = 1 /\ HeldWhereStored(h)
        /\ handles[h].tx = "dropped" =>
              handles[h].sent = <<>> /\ HeldCount(h) = 0 /\ LostUpstream(h)

\* C1 amended: at most one completion is ever written on a handle; a handle is
\* either written exactly once and held nowhere, or unwritten and held in
\* exactly one place (its table entry, or the event path for a request to
\* self), or dropped unwritten, and that only for a Dial to a peer whose dial
\* was pending or for a request to self lost with the closed event path.
C1_ExactlyOneCompletion ==
    \A h \in DOMAIN handles :
        /\ Len(handles[h].sent) <= 1
        /\ handles[h].tx = "sent" => Len(handles[h].sent) = 1 /\ HeldCount(h) = 0
        /\ handles[h].tx = "live" =>
              handles[h].sent = <<>> /\ HeldCount(h) = 1 /\ HeldWhereStored(h)
        /\ handles[h].tx = "dropped" =>
              /\ handles[h].sent = <<>> /\ HeldCount(h) = 0
              /\ DuplicateDial(h) \/ LostUpstream(h)

\* A handle that was stored in a table has its completion from the routing of
\* its event, and another was completed within the step of its command.
C1_Witness ==
    \E h1, h2 \in DOMAIN handles :
        /\ handles[h1].table \in {"pending_query", "pending_requests", "pending_dial",
                                  "pending_get_closest_peers"}
        /\ Len(handles[h1].sent) = 1
        /\ handles[h2].table = "" /\ Len(handles[h2].sent) = 1

\* C2: a Dial for a peer that has an entry in pending_dial writes nothing to
\* its handle and drops it, leaves pending_dial as it was (one entry for the
\* peer, holding the first handle), leaves every other handle alone and
\* returns Ok.
C2_DuplicateDialDropped ==
    [][Handled("Dial") => \A peer_id \in DOMAIN pending_dial, added, ok, rx \in BOOLEAN :
          Dial(peer_id, added, ok, rx) =>
              LET h1 == pending_dial[peer_id]
                  h2 == Len(handles')
              IN /\ h2 = Len(handles) + 1
                 /\ handles'[h2].sent = <<>> /\ handles'[h2].tx = "dropped"
                 /\ pending_dial' = pending_dial
                 /\ Cardinality({p \in DOMAIN pending_dial' : p = peer_id}) = 1
                 /\ pending_dial'[peer_id] = h1
                 /\ \A h \in DOMAIN handles : handles'[h] = handles[h]
                 /\ handles'[h1].tx = "live"
                 /\ last'.res = "Ok" /\ last'.calls = {}]_vars

\* A second Dial for a peer was dropped while the first is still pending.
C2_Witness ==
    /\ last.op = "Dial" /\ last.h = 2
    /\ handles[2].tx = "dropped"
    /\ handles[2].peer \in DOMAIN pending_dial
    /\ pending_dial[handles[2].peer] = 1

\* C3: a SendRequest to the local peer does not call send_request and adds
\* nothing to pending_requests; it hands exactly one event to event_sender,
\* RequestReceived with the same request and FromSelf of the command's own
\* sender, which is queued on the channel (or waits for room) unless the
\* upstream receiver is gone.
C3_SelfRequestLoopsBack ==
    [][Handled("SendRequest") => \A req \in Requests, request_id \in RequestIds :
          SendRequest(req, LocalPeerId, request_id) =>
              LET sender == Len(handles')
                  event == RequestReceived(req, FromSelf(sender))
              IN /\ "send_request" \notin last'.calls
                 /\ pending_requests' = pending_requests
                 /\ next_request_id' = next_request_id
                 /\ last'.emitted = <<event>>
                 /\ last'.res = "Ok" => event_channel' = Append(event_channel, event)
                 /\ last'.res = "Pending" => sending' = event /\ event_channel' = event_channel
                 /\ last'.res \in {"Ok", "Pending"} <=> ~event_closed]_vars

\* A request to self has been queued for the upstream layer.
C3_Witness ==
    /\ last.op = "SendRequest" /\ last.res = "Ok"
    /\ Len(last.emitted) = 1
    /\ Len(event_channel) > 0
    /\ event_channel[Len(event_channel)] = last.emitted[1]
    /\ last.emitted[1].channel = FromSelf(last.h)
    /\ pending_requests = EmptyMap

\* The responders the upstream layer can hold or receive are FromSelf of a
\* still unwritten sender of a SendRequest to self.
SelfResponderIntact(channel) ==
    /\ channel.tag = "FromSelf"
    /\ channel.h \in DOMAIN handles
    /\ handles[channel.h].cmd = "SendRequest"
    /\ handles[channel.h].peer = LocalPeerId
    /\ handles[channel.h].tx = "live"
    /\ handles[channel.h].sent = <<>>

\* C4: whatever happens between a SendRequest to self and the SendResponse
\* with its FromSelf responder, the sender stays unwritten, and the
\* SendResponse(r) writes exactly Ok(r) on it and nothing on any other handle.
C4_SelfRoundTrip ==
    /\ [](\A channel \in responders : SelfResponderIntact(channel))
    /\ [](\A i \in DOMAIN event_channel : SelfResponderIntact(event_channel[i].channel))
    /\ [][Handled("SendResponse") =>
          \A resp \in Responses, channel \in responders, rx \in BOOLEAN :
            SendResponseFromSelf(resp, channel, rx) =>
                /\ handles'[channel.h].sent = <<OkResponse(resp)>>
                /\ \A h \in DOMAIN handles : h # channel.h => handles'[h] = handles[h]
                /\ DOMAIN handles' = DOMAIN handles]_vars

\* The response to a request to self has been written on the request's handle
\* after another command was handled in between.
C4_Witness ==
    /\ last.op = "SendResponse" /\ last.h = 1
    /\ handles[1].cmd = "SendRequest" /\ handles[1].peer = LocalPeerId
    /\ handles[1].sent = <<OkResponse("resp2")>>
    /\ Len(handles) = 2

\* Everything but the record of the last step.
state == <<pending_query, pending_get_closest_peers, pending_requests, pending_dial,
           next_query_id, next_request_id, routing_table, listeners, connected_peers,
           event_channel, event_closed, sending, responders, handles>>

\* The handles that were stored in the given table under the given identifier.
StoredUnder(table, id) ==
    {h \in DOMAIN handles : handles[h].table = table /\ handles[h].id = id}

\* C5: the routing of a final event leaves no entry under its identifier, and
\* for an identifier without an entry (already removed, or never present) it
\* changes nothing; so at most one completion is ever written for an
\* identifier of a table.
C5_RemoveIdempotent ==
    /\ [](\A h \in DOMAIN handles : Len(handles[h].sent) <= 1)
    /\ [](\A id \in QueryIds :
            \A h1, h2 \in StoredUnder("pending_query", id)
                          \cup StoredUnder("pending_get_closest_peers", id) :
                handles[h1].sent # <<>> /\ handles[h2].sent # <<>> => h1 = h2)
    /\ [](\A id \in RequestIds :
            \A h1, h2 \in StoredUnder("pending_requests", id) :
                handles[h1].sent # <<>> /\ handles[h2].sent # <<>> => h1 = h2)
    /\ [][Handled("SwarmEvent") =>
          /\ \A id \in QueryIds, r \in Records, rx \in BOOLEAN :
                GetRecordCompleted(id, r, rx) =>
                    /\ id \notin DOMAIN pending_query'
                    /\ id \notin DOMAIN pending_query => UNCHANGED state /\ last'.h = 0
          /\ \A id \in QueryIds, rx \in BOOLEAN :
                ClosestPeersCompleted(id, rx) =>
                    /\ id \notin DOMAIN pending_get_closest_peers'
                    /\ id \notin DOMAIN pending_get_closest_peers =>
                          UNCHANGED state /\ last'.h = 0
          /\ \A id \in RequestIds,
                v \in {OkResponse(r) : r \in PeerResponses} \cup {ErrVal("OutboundFailure")},
                rx \in BOOLEAN :
                RequestCompleted(id, v, rx) =>
                    /\ id \notin DOMAIN pending_requests'
                    /\ id \notin DOMAIN pending_requests => UNCHANGED state /\ last'.h = 0
          /\ \A peer \in RemotePeers, ok, rx \in BOOLEAN :
                DialCompleted(peer, ok, rx) =>
                    /\ peer \notin DOMAIN pending_dial'
                    /\ peer \notin DOMAIN pending_dial => UNCHANGED state /\ last'.h = 0]_vars

\* The one record lookup of the run is complete, its entry is gone, and a
\* later event for its identifier was routed to no handle.
C5_Witness ==
    /\ Len(handles) = 1
    /\ handles[1].table = "pending_query" /\ Len(handles[1].sent) = 1
    /\ pending_query = EmptyMap
    /\ last.op = "SwarmEvent" /\ last.h = 0

\* The handles ever stored under query identifier id, and under request
\* identifier id.
QueryHandles(id) ==
    StoredUnder("pending_query", id) \cup StoredUnder("pending_get_closest_peers", id)

RequestHandles(id) == StoredUnder("pending_requests", id)

\* C6: no identifier is in two tables at once; an identifier is inserted once,
\* for the one command that got it from the network stack, and once its entry
\* is removed (its handle written) it is never in a table again; the entries
\* of every table are exactly the stored handles that are still unwritten.
C6_IdentifierInOneTable ==
    /\ DOMAIN pending_query \cap DOMAIN pending_get_closest_peers = {}
    /\ \A id \in QueryIds : Cardinality(QueryHandles(id)) <= 1
    /\ \A id \in RequestIds : Cardinality(RequestHandles(id)) <= 1
    /\ \A id \in DOMAIN pending_query :
          StoredUnder("pending_query", id) = {pending_query[id]}
          /\ handles[pending_query[id]].tx = "live"
    /\ \A id \in DOMAIN pending_get_closest_peers :
          StoredUnder("pending_get_closest_peers", id) = {pending_get_closest_peers[id].sender}
          /\ handles[pending_get_closest_peers[id].sender].tx = "live"
    /\ \A id \in DOMAIN pending_requests :
          StoredUnder("pending_requests", id) = {pending_requests[id]}
          /\ handles[pending_requests[id]].tx = "live"
    /\ \A p \in DOMAIN pending_dial :
          /\ handles[pending_dial[p]].table = "pending_dial"
          /\ handles[pending_dial[p]].peer = p
          /\ handles[pending_dial[p]].tx = "live"
    /\ \A h \in DOMAIN handles :
          /\ Len(handles[h].sent) <= 1
          /\ handles[h].table \in {"pending_query", "pending_get_closest_peers",
                                   "pending_requests", "pending_dial"} =>
                (handles[h].tx = "live" <=> HeldWhereStored(h))
          /\ handles[h].table = "pending_query" /\ handles[h].tx # "live" =>
                handles[h].id \notin DOMAIN pending_query
          /\ handles[h].table = "pending_get_closest_peers" /\ handles[h].tx # "live" =>
                handles[h].id \notin DOMAIN pending_get_closest_peers
          /\ handles[h].table = "pending_requests" /\ handles[h].tx # "live" =>
                handles[h].id \notin DOMAIN pending_requests

\* One query identifier has been inserted and removed, another is in the
\* other query table.
C6_Witness ==
    \E h1, h2 \in DOMAIN handles :
        /\ handles[h1].table = "pending_query" /\ handles[h1].tx = "sent"
        /\ handles[h2].table = "pending_get_closest_peers" /\ handles[h2].tx = "live"
        /\ handles[h2].id \in DOMAIN pending_get_closest_peers
        /\ handles[h1].id # handles[h2].id

\* C7 as stated: an insert under a key that is present keeps the existing
\* entry and its handle, in all four tables.
C7_Original ==
    [][/\ Handled("GetData") => \A query_id \in DOMAIN pending_query :
             GetData(query_id) =>
                 /\ pending_query'[query_id] = pending_query[query_id]
                 /\ handles'[pending_query[query_id]].tx = "live"
       /\ Handled("QueryForClosestPeers") => \A query_id \in DOMAIN pending_get_closest_peers :
             QueryForClosestPeers(query_id) =>
                 /\ pending_get_closest_peers'[query_id] = pending_get_closest_peers[query_id]
                 /\ handles'[pending_get_closest_peers[query_id].sender].tx = "live"
       /\ Handled("SendRequest") =>
          \A req \in Requests, peer \in RemotePeers, request_id \in DOMAIN pending_requests :
             SendRequest(req, peer, request_id) =>
                 /\ pending_requests'[request_id] = pending_requests[request_id]
                 /\ handles'[pending_requests[request_id]].tx = "live"
       /\ Handled("Dial") => \A peer_id \in DOMAIN pending_dial, added, ok, rx \in BOOLEAN :
             Dial(peer_id, added, ok, rx) =>
                 /\ pending_dial'[peer_id] = pending_dial[peer_id]
                 /\ handles'[pending_dial[peer_id]].tx = "live"]_vars

\* C7 amended: a Dial for a peer that is present keeps the existing entry and
\* its handle; an insert into the other three tables under an identifier that
\* is present replaces the entry by the new command's handle (with an empty
\* accumulator), drops the existing handle unwritten and leaves the other
\* entries alone.
C7_InsertOnPresentKey ==
    [][/\ Handled("GetData") => \A query_id \in DOMAIN pending_query :
             GetData(query_id) =>
                 /\ pending_query' = [pending_query EXCEPT ![query_id] = Len(handles')]
                 /\ handles'[pending_query[query_id]].tx = "dropped"
                 /\ handles'[pending_query[query_id]].sent = <<>>
       /\ Handled("QueryForClosestPeers") => \A query_id \in DOMAIN pending_get_closest_peers :
             QueryForClosestPeers(query_id) =>
                 /\ pending_get_closest_peers' =
                       [pending_get_closest_peers EXCEPT
                           ![query_id] = [sender |-> Len(handles'), peers |-> {}]]
                 /\ handles'[pending_get_closest_peers[query_id].sender].tx = "dropped"
                 /\ handles'[pending_get_closest_peers[query_id].sender].sent = <<>>
       /\ Handled("SendRequest") =>
          \A req \in Requests, peer \in RemotePeers, request_id \in DOMAIN pending_requests :
             SendRequest(req, peer, request_id) =>
                 /\ pending_requests' = [pending_requests EXCEPT ![request_id] = Len(handles')]
                 /\ handles'[pending_requests[request_id]].tx = "dropped"
                 /\ handles'[pending_requests[request_id]].sent = <<>>
       /\ Handled("Dial") => \A peer_id \in DOMAIN pending_dial, added, ok, rx \in BOOLEAN :
             Dial(peer_id, added, ok, rx) =>
                 /\ pending_dial' = pending_dial
                 /\ handles'[pending_dial[peer_id]].tx = "live"
                 /\ handles'[Len(handles')].tx = "dropped"]_vars

\* The network stack returned a pending identifier again: the first command's
\* handle was dropped unwritten and the entry holds the second command's.
C7_Witness ==
    /\ Len(handles) = 2
    /\ handles[1].table = "pending_requests" /\ handles[2].table = "pending_requests"
    /\ handles[1].id = handles[2].id
    /\ handles[1].tx = "dropped" /\ handles[1].sent = <<>>
    /\ handles[2].id \in DOMAIN pending_requests
    /\ pending_requests[handles[2].id] = 2

\* C8 as stated: PutRecord touches no table and no handle, and handle_cmd
\* returns Ok whether put_record succeeds or fails.
C8_Original ==
    [][Handled("PutProvidedDataAsRecord") => \A stored \in BOOLEAN :
          PutProvidedDataAsRecord(stored) =>
              /\ UNCHANGED <<tables, handles>>
              /\ last'.calls = {"put_record(Quorum::All)"}
              /\ last'.res = "Ok"]_vars

\* C8 amended: PutRecord calls put_record with Quorum::All and nothing else,
\* touches no table, no handle and no event; handle_cmd returns Ok when
\* put_record succeeds and returns the store error when it fails.
C8_PutRecordReturnsStoreError ==
    [][Handled("PutProvidedDataAsRecord") => \A stored \in BOOLEAN :
          PutProvidedDataAsRecord(stored) =>
              /\ UNCHANGED <<tables, handles, event_channel, sending, responders>>
              /\ last'.calls = {"put_record(Quorum::All)"}
              /\ last'.emitted = <<>>
              /\ last'.h = 0
              /\ last'.res = IF stored THEN "Ok" ELSE "Err(Store)"]_vars

\* A PutRecord failed in the store while an operation is pending in a table.
C8_Witness ==
    /\ last.op = "PutProvidedDataAsRecord" /\ last.res = "Err(Store)"
    /\ \E h \in DOMAIN handles : handles[h].tx = "live" /\ HeldWhereStored(h)

\* C9 as stated: handle_cmd returns an error only for a SendResponse with a
\* FromSelf responder whose receiver is gone.
C9_Original ==
    last.res \in {"Ok", "Pending", "-"}
    \/ (last.op = "SendResponse" /\ last.h # 0 /\ last.res = "Err(InternalMsgChannelDropped)")

\* C9 amended: handle_cmd returns an error exactly when put_record fails, when
\* the upstream event path is closed for a SendRequest to self, when the
\* receiver of a FromSelf responder or of GetLocalState is gone, or when
\* send_response fails for a FromPeer responder; a listen error, a dial
\* error, a duplicate dial and a dropped receiver of any other handle leave
\* the result Ok.
C9_ErrorsReturned ==
    [][/\ Handled("GetData") => last'.res = "Ok"
       /\ Handled("QueryForClosestPeers") => last'.res = "Ok"
       /\ Handled("StartListening") => last'.res = "Ok"
       /\ Handled("Dial") => last'.res = "Ok"
       /\ Handled("GetClosestLocalPeers") => last'.res = "Ok"
       /\ Handled("PutProvidedDataAsRecord") => \A stored \in BOOLEAN :
             PutProvidedDataAsRecord(stored) =>
                 last'.res = IF stored THEN "Ok" ELSE "Err(Store)"
       /\ Handled("SendRequest") =>
             /\ \A req \in Requests, peer \in PeerIds, request_id \in RequestIds :
                   SendRequest(req, peer, request_id) =>
                       last'.res = IF peer = LocalPeerId /\ event_closed
                                   THEN "Err(EventChannelClosed)"
                                   ELSE IF peer = LocalPeerId /\ Len(event_channel) >= EventCap
                                   THEN "Pending" ELSE "Ok"
             /\ SendRequestResume =>
                   last'.res = IF event_closed THEN "Err(EventChannelClosed)" ELSE "Ok"
       /\ Handled("SendResponse") =>
             /\ \A resp \in Responses, channel \in responders, rx \in BOOLEAN :
                   SendResponseFromSelf(resp, channel, rx) =>
                       last'.res = IF rx THEN "Ok" ELSE "Err(InternalMsgChannelDropped)"
             /\ \A resp \in Responses, c \in PeerChannels, delivered \in BOOLEAN :
                   SendResponseFromPeer(resp, FromPeer(c), delivered) =>
                       last'.res = IF delivered THEN "Ok" ELSE "Err(OutgoingResponseDropped)"
       /\ Handled("GetSwarmLocalState") => \A rx \in BOOLEAN :
             GetSwarmLocalState(rx) =>
                 last'.res = IF rx THEN "Ok" ELSE "Err(InternalMsgChannelDropped)"]_vars

\* GetLocalState was asked by a caller that stopped waiting: the snapshot was
\* written to no one and handle_cmd returned the error.
C9_Witness ==
    /\ last.op = "GetSwarmLocalState" /\ ~last.rx
    /\ last.res = "Err(InternalMsgChannelDropped)"
    /\ Len(handles[last.h].sent) = 1

\* C10: GetClosestLocalPeers changes no table and starts no query (its only
\* call is the read of the local routing table, no identifier is used up); it
\* writes the peers of the routing table on its handle in the same step, the
\* handle is held nowhere afterwards, and handle_cmd returns Ok.
C10_LocalPeersSynchronous ==
    [][Handled("GetClosestLocalPeers") => \A rx \in BOOLEAN :
          GetClosestLocalPeers(rx) =>
              LET sender == Len(handles')
              IN /\ UNCHANGED tables
                 /\ UNCHANGED <<next_query_id, next_request_id, routing_table>>
                 /\ last'.calls = {"get_closest_local_peers"}
                 /\ sender = Len(handles) + 1
                 /\ handles'[sender].sent = <<PeerSet(routing_table)>>
                 /\ handles'[sender].tx = "sent"
                 /\ \A h \in DOMAIN handles : handles'[h] = handles[h]
                 /\ last'.res = "Ok"]_vars

\* The peers of a non-empty routing table were written while a dial is
\* pending in its table.
C10_Witness ==
    /\ last.op = "GetClosestLocalPeers"
    /\ routing_table # {}
    /\ handles[last.h].sent = <<PeerSet(routing_table)>>
    /\ pending_dial # EmptyMap

\* C11: QueryForClosestPeers puts the identifier the network stack returned
\* into pending_get_closest_peers with the command's sender and an empty
\* accumulator and writes nothing on the sender; a progress event of a pending
\* identifier adds its peers to that accumulator and does nothing else; the
\* final event removes the entry and writes the accumulated peers, all of
\* them and no others, on the sender, which is never written twice.
C11_ClosestPeersAccumulate ==
    /\ [](\A h \in DOMAIN handles :
            handles[h].cmd = "QueryForClosestPeers" =>
                /\ Len(handles[h].sent) <= 1
                /\ handles[h].tx = "live" =>
                      /\ handles[h].id \in DOMAIN pending_get_closest_peers
                      /\ pending_get_closest_peers[handles[h].id].sender = h)
    /\ [][/\ Handled("QueryForClosestPeers") =>
               (QueryForClosestPeers(next_query_id) =>
                   LET sender == Len(handles')
                   IN /\ pending_get_closest_peers' =
                            HashMapInsert(pending_get_closest_peers, next_query_id,
                                          [sender |-> sender, peers |-> {}])
                      /\ DOMAIN pending_get_closest_peers' =
                            DOMAIN pending_get_closest_peers \cup {next_query_id}
                      /\ handles'[sender].sent = <<>> /\ handles'[sender].tx = "live"
                      /\ \A h \in DOMAIN handles : handles'[h] = handles[h])
          /\ Handled("SwarmEvent") =>
               \A id \in DOMAIN pending_get_closest_peers, peer \in ProgressPeers :
                   ClosestPeersProgress(id, {peer}) =>
                       /\ pending_get_closest_peers' =
                             [pending_get_closest_peers EXCEPT
                                 ![id] = [sender |-> @.sender, peers |-> @.peers \cup {peer}]]
                       /\ handles' = handles
                       /\ UNCHANGED <<pending_query, pending_requests, pending_dial>>
          /\ Handled("SwarmEvent") =>
               \A id \in DOMAIN pending_get_closest_peers, rx \in BOOLEAN :
                   ClosestPeersCompleted(id, rx) =>
                       LET entry == pending_get_closest_peers[id]
                       IN /\ id \notin DOMAIN pending_get_closest_peers'
                          /\ \A x \in DOMAIN pending_get_closest_peers' :
                                pending_get_closest_peers'[x] = pending_get_closest_peers[x]
                          /\ handles'[entry.sender].sent = <<PeerSet(entry.peers)>>
                          /\ \A h \in DOMAIN handles :
                                h # entry.sender => handles'[h] = handles[h]]_vars

\* Two progress events with different peers were followed by the final event:
\* the handle of the query holds both peers.
C11_Witness ==
    \E h \in DOMAIN handles :
        /\ handles[h].cmd = "QueryForClosestPeers"
        /\ handles[h].sent = <<PeerSet({"p1", "p2"})>>
        /\ handles[h].id \notin DOMAIN pending_get_closest_peers

\* C12: GetSwarmLocalState writes on its handle the snapshot of exactly the
\* connected peers and exactly the listeners of the moment it is handled, and
\* changes no table; whatever happens afterwards, to connections and
\* listeners too, the snapshot written on the handle stays as it is.
C12_SnapshotOfTheMoment ==
    /\ [][Handled("GetSwarmLocalState") => \A rx \in BOOLEAN :
            GetSwarmLocalState(rx) =>
                LET sender == Len(handles')
                IN /\ handles'[sender].sent =
                         <<[tag |-> "SwarmLocalState", resp |-> "",
                            peers |-> connected_peers, listeners |-> listeners]>>
                   /\ \A h \in DOMAIN handles : handles'[h] = handles[h]
                   /\ UNCHANGED tables
                   /\ UNCHANGED <<connected_peers, listeners>>]_vars
    /\ [][\A h \in DOMAIN handles :
            handles[h].cmd = "GetSwarmLocalState" => handles'[h] = handles[h]]_vars

\* A snapshot with a connected peer is on its handle, and the connection has
\* ended since.
C12_Witness ==
    \E h \in DOMAIN handles :
        /\ handles[h].cmd = "GetSwarmLocalState"
        /\ Len(handles[h].sent) = 1
        /\ handles[h].sent[1].peers # {}
        /\ connected_peers = {}

\* C13: SendResponse with a FromSelf responder writes Ok(resp) on the wrapped
\* sender, does not call send_response, and returns the internal channel
\* dropped error exactly when the receiver is gone; with a FromPeer responder
\* it calls send_response, writes on no handle, and returns the outgoing
\* response dropped error exactly when the delivery fails. Neither changes a
\* table.
C13_SendResponseDispatch ==
    [][Handled("SendResponse") =>
          /\ \A resp \in Responses, channel \in responders, rx \in BOOLEAN :
                SendResponseFromSelf(resp, channel, rx) =>
                    /\ handles'[channel.h].sent = <<OkResponse(resp)>>
                    /\ "send_response" \notin last'.calls
                    /\ last'.res = "Err(InternalMsgChannelDropped)" <=> ~rx
                    /\ last'.res = "Ok" <=> rx
                    /\ UNCHANGED tables
          /\ \A resp \in Responses, c \in PeerChannels, delivered \in BOOLEAN :
                SendResponseFromPeer(resp, FromPeer(c), delivered) =>
                    /\ last'.calls = {"send_response"}
                    /\ handles' = handles
                    /\ last'.res = "Err(OutgoingResponseDropped)" <=> ~delivered
                    /\ last'.res = "Ok" <=> delivered
                    /\ UNCHANGED tables]_vars

\* A response to a peer could not be delivered while an operation is pending,
\* and a response to self was written earlier in the run.
C13_Witness ==
    /\ last.op = "SendResponse" /\ last.h = 0
    /\ last.res = "Err(OutgoingResponseDropped)"
    /\ \E h \in DOMAIN handles :
          handles[h].table = "event" /\ handles[h].tx = "sent"
    /\ \E h \in DOMAIN handles : handles[h].tx = "live" /\ HeldWhereStored(h)

\* C14: a failed listen_on, and a failed dial of a peer without a pending
\* dial, is written as an error on the command's own sender, once and for
\* good; handle_cmd returns Ok, calls listen_on or dial in that step only, and
\* the failed Dial leaves pending_dial as it was, without the peer. A
\* successful dial writes nothing and adds exactly the pair of the peer and
\* the sender to pending_dial.
C14_TransportErrorsOnHandle ==
    /\ []("listen_on" \in last.calls => last.op = "StartListening")
    /\ []("dial" \in last.calls => last.op = "Dial")
    /\ [][\A h \in DOMAIN handles :
            handles[h].cmd \in {"StartListening", "Dial"} /\ handles[h].tx = "sent"
                => handles'[h] = handles[h]]_vars
    /\ [][/\ Handled("StartListening") => \A addr \in Addrs, ok, rx \in BOOLEAN :
               StartListening(addr, ok, rx) =>
                   LET sender == Len(handles')
                   IN /\ handles'[sender].sent =
                            <<IF ok THEN OkUnit ELSE ErrVal("ListenError")>>
                      /\ last'.res = "Ok"
                      /\ last'.calls = {"listen_on"}
                      /\ UNCHANGED tables
                      /\ ~ok => listeners' = listeners
          /\ Handled("Dial") =>
               \A peer_id \in RemotePeers \ DOMAIN pending_dial, added, ok, rx \in BOOLEAN :
                   Dial(peer_id, added, ok, rx) =>
                       LET sender == Len(handles')
                       IN /\ last'.res = "Ok"
                          /\ last'.calls = {"add_address", "dial"}
                          /\ UNCHANGED <<pending_query, pending_get_closest_peers,
                                         pending_requests>>
                          /\ \A h \in DOMAIN handles : handles'[h] = handles[h]
                          /\ IF ok
                             THEN /\ handles'[sender].sent = <<>>
                                  /\ handles'[sender].tx = "live"
                                  /\ DOMAIN pending_dial' = DOMAIN pending_dial \cup {peer_id}
                                  /\ pending_dial'[peer_id] = sender
                                  /\ \A p \in DOMAIN pending_dial :
                                        pending_dial'[p] = pending_dial[p]
                             ELSE /\ handles'[sender].sent = <<ErrVal("DialError")>>
                                  /\ pending_dial' = pending_dial
                                  /\ peer_id \notin DOMAIN pending_dial']_vars

\* A dial failed at once while the dial of another peer is pending.
C14_Witness ==
    /\ Len(handles) = 2
    /\ handles[1].cmd = "Dial" /\ handles[1].tx = "live"
    /\ handles[1].peer \in DOMAIN pending_dial
    /\ last.op = "Dial" /\ last.h = 2
    /\ handles[2].sent = <<ErrVal("DialError")>>
    /\ handles[2].peer \notin DOMAIN pending_dial

\* The map is the other map with one more entry, v under k.
OneMoreEntry(map2, map, k, v) ==
    /\ k \notin DOMAIN map
    /\ DOMAIN map2 = DOMAIN map \cup {k}
    /\ map2[k] = v
    /\ \A x \in DOMAIN map : map2[x] = map[x]

\* C15: GetData, QueryForClosestPeers and SendRequest to a remote peer each
\* add exactly one entry to their own table (pending_query,
\* pending_get_closest_peers, pending_requests), under the identifier the
\* network stack returned and holding the command's own sender, write nothing
\* on the sender in that step and leave the other three tables as they were.
C15_OneEntryInOwnTable ==
    [][/\ Handled("GetData") =>
            (GetData(next_query_id) =>
                LET sender == Len(handles')
                IN /\ sender = Len(handles) + 1
                   /\ OneMoreEntry(pending_query', pending_query, next_query_id, sender)
                   /\ handles'[sender].sent = <<>> /\ handles'[sender].tx = "live"
                   /\ \A h \in DOMAIN handles : handles'[h] = handles[h]
                   /\ last'.calls = {"get_record"}
                   /\ UNCHANGED <<pending_get_closest_peers, pending_requests, pending_dial>>)
       /\ Handled("QueryForClosestPeers") =>
            (QueryForClosestPeers(next_query_id) =>
                LET sender == Len(handles')
                IN /\ sender = Len(handles) + 1
                   /\ OneMoreEntry(pending_get_closest_peers', pending_get_closest_peers,
                                   next_query_id, [sender |-> sender, peers |-> {}])
                   /\ handles'[sender].sent = <<>> /\ handles'[sender].tx = "live"
                   /\ \A h \in DOMAIN handles : handles'[h] = handles[h]
                   /\ last'.calls = {"get_closest_peers"}
                   /\ UNCHANGED <<pending_query, pending_requests, pending_dial>>)
       /\ Handled("SendRequest") => \A req \in Requests, peer \in RemotePeers :
            SendRequest(req, peer, next_request_id) =>
                LET sender == Len(handles')
                IN /\ sender = Len(handles) + 1
                   /\ OneMoreEntry(pending_requests', pending_requests,
                                   next_request_id, sender)
                   /\ handles'[sender].sent = <<>> /\ handles'[sender].tx = "live"
                   /\ \A h \in DOMAIN handles : handles'[h] = handles[h]
                   /\ last'.calls = {"send_request"}
                   /\ last'.emitted = <<>>
                   /\ UNCHANGED <<pending_query, pending_get_closest_peers,
                                  pending_dial>>]_vars

\* A record lookup was registered next to a pending request to a remote peer.
C15_Witness ==
    /\ Len(handles) = 2
    /\ handles[1].cmd = "SendRequest" /\ handles[1].peer \in RemotePeers
    /\ handles[1].id \in DOMAIN pending_requests /\ pending_requests[handles[1].id] = 1
    /\ last.op = "GetData" /\ last.h = 2
    /\ handles[2].id \in DOMAIN pending_query /\ pending_query[handles[2].id] = 2
    /\ handles[2].sent = <<>>

\* C16: when the receiver of a handle is gone at the time the result is
\* written (the result of StartListening, the error of a Dial that failed at
\* once, the result of GetClosestLocalPeers, the result of a table entry
\* routed later), the step is the same as with the receiver present: the
\* sender is used up, handle_cmd returns Ok, and the tables and the swarm end
\* as they do when the write succeeds.
C16_AbandonedReceiver ==
    [][/\ Handled("StartListening") => \A addr \in Addrs, ok, rx \in BOOLEAN :
            StartListening(addr, ok, rx) =>
                /\ last'.res = "Ok"
                /\ handles'[Len(handles')].tx = "sent"
                /\ UNCHANGED tables
                /\ listeners' = IF ok THEN listeners \cup {addr} ELSE listeners
       /\ Handled("Dial") =>
            \A peer_id \in RemotePeers \ DOMAIN pending_dial, added, rx \in BOOLEAN :
                Dial(peer_id, added, FALSE, rx) =>
                    /\ last'.res = "Ok"
                    /\ handles'[Len(handles')].tx = "sent"
                    /\ UNCHANGED tables
                    /\ routing_table' = IF added THEN routing_table \cup {peer_id}
                                        ELSE routing_table
       /\ Handled("GetClosestLocalPeers") => \A rx \in BOOLEAN :
            GetClosestLocalPeers(rx) =>
                /\ last'.res = "Ok"
                /\ handles'[Len(handles')].tx = "sent"
                /\ UNCHANGED <<tables, swarm>>
       /\ Handled("SwarmEvent") =>
            /\ \A id \in DOMAIN pending_query, r \in Records, rx \in BOOLEAN :
                  GetRecordCompleted(id, r, rx) =>
                      /\ handles'[pending_query[id]].tx = "sent"
                      /\ pending_query' = HashMapRemove(pending_query, id)
                      /\ UNCHANGED <<pending_get_closest_peers, pending_requests,
                                     pending_dial, swarm>>
            /\ \A id \in DOMAIN pending_get_closest_peers, rx \in BOOLEAN :
                  ClosestPeersCompleted(id, rx) =>
                      /\ handles'[pending_get_closest_peers[id].sender].tx = "sent"
                      /\ pending_get_closest_peers' =
                            HashMapRemove(pending_get_closest_peers, id)
                      /\ UNCHANGED <<pending_query, pending_requests, pending_dial, swarm>>
            /\ \A id \in DOMAIN pending_requests, rx \in BOOLEAN,
                  v \in {OkResponse(r) : r \in PeerResponses} \cup {ErrVal("OutboundFailure")} :
                  RequestCompleted(id, v, rx) =>
                      /\ handles'[pending_requests[id]].tx = "sent"
                      /\ pending_requests' = HashMapRemove(pending_requests, id)
                      /\ UNCHANGED <<pending_query, pending_get_closest_peers,
                                     pending_dial, swarm>>
            /\ \A peer \in DOMAIN pending_dial, ok, rx \in BOOLEAN :
                  DialCompleted(peer, ok, rx) =>
                      /\ handles'[pending_dial[peer]].tx = "sent"
                      /\ pending_dial' = HashMapRemove(pending_dial, peer)
                      /\ connected_peers' = IF ok THEN connected_peers \cup {peer}
                                            ELSE connected_peers
                      /\ UNCHANGED <<pending_query, pending_get_closest_peers,
                                     pending_requests>>]_vars

\* The local peers were written for a caller that had stopped waiting, after
\* the result of a table entry had been routed.
C16_Witness ==
    /\ last.op = "GetClosestLocalPeers" /\ ~last.rx /\ last.res = "Ok"
    /\ handles[last.h].tx = "sent"
    /\ \E h \in DOMAIN handles : h # last.h /\ HeldCount(h) = 0 /\ handles[h].tx = "sent"
                                 /\ handles[h].table = "pending_dial"

\* The step is one of the upstream layer, which runs beside the driver.
UpstreamStep == last'.op = "Upstream"

C18_HandoffEnds == ~Idle ~> Idle

\* A suspended SendRequest to self has ended its hand-over: its event is in
\* the channel, and the upstream layer holds a responder it has yet to answer
\* with a SendResponse.
C18_Witness ==
    /\ last.op = "SendRequest" /\ last.calls = {} /\ last.res = "Ok"
    /\ Idle
    /\ \E i \in DOMAIN event_channel : event_channel[i].channel = FromSelf(last.h)
    /\ responders # {}

\* An earlier command was a Dial for the peer.
DialedBefore(peer_id) ==
    \E h \in DOMAIN handles : handles[h].cmd = "Dial" /\ handles[h].peer = peer_id

\* C19: a Dial for a peer that was dialed before and has no entry in
\* pending_dial any more (the outcome of the earlier dial was routed, or the
\* earlier dial failed at once) is handled like a first dial: add_address and
\* dial are called, and the sender is stored under the peer, or the error of
\* the dial is written on it; it is not dropped unwritten.
C19_DialAgainAfterOutcome ==
    [][Handled("Dial") =>
          \A peer_id \in RemotePeers \ DOMAIN pending_dial, added, ok, rx \in BOOLEAN :
              Dial(peer_id, added, ok, rx) /\ DialedBefore(peer_id) =>
                  LET sender == Len(handles')
                  IN /\ last'.calls = {"add_address", "dial"}
                     /\ handles'[sender].tx # "dropped"
                     /\ ok => /\ peer_id \in DOMAIN pending_dial'
                              /\ pending_dial'[peer_id] = sender
                              /\ handles'[sender].tx = "live"
                     /\ ~ok => /\ handles'[sender].sent = <<ErrVal("DialError")>>
                               /\ pending_dial' = pending_dial]_vars

\* The outcome of the first dial of a peer was routed, the peer is connected,
\* and a second Dial for it is pending in the table.
C19_Witness ==
    /\ Len(handles) = 2
    /\ handles[1].cmd = "Dial" /\ handles[1].table = "pending_dial"
    /\ handles[1].sent = <<OkUnit>>
    /\ last.op = "Dial" /\ last.h = 2
    /\ handles[2].peer = handles[1].peer
    /\ handles[2].peer \in connected_peers
    /\ handles[2].peer \in DOMAIN pending_dial /\ pending_dial[handles[2].peer] = 2

\* The results with which handle_cmd returns an error.
ErrorResults ==
    {"Err(Store)", "Err(EventChannelClosed)", "Err(InternalMsgChannelDropped)",
     "Err(OutgoingResponseDropped)"}

\* C20: a command that ends with an error leaves the four tables of pending
\* senders, the identifiers of the network stack, the routing table, the
\* listeners and the events handed upstream as they were before it.
C20_ErrorLeavesTables ==
    [][last'.res \in ErrorResults =>
          /\ UNCHANGED tables
          /\ UNCHANGED <<next_query_id, next_request_id, routing_table, listeners,
                         connected_peers, event_channel>>]_vars

\* A command has just ended with an error while a sender is held in a table.
C20_Witness ==
    /\ last.res \in ErrorResults
    /\ \E h \in DOMAIN handles : HeldCount(h) = 1
====
